---- MODULE Spec2Model ----
(***************************************************************************)
(* Model of bin/xbps-bin/install.c: the two entry operations               *)
(* xbps_install_pkg and xbps_autoupdate_pkgs, the transaction executor     *)
(* exec_transaction with its helpers check_pkg_hashes and                  *)
(* show_transaction_sizes, and cleanup.  Every call to a collaborator of   *)
(* libxbps is appended to a call log; its result is a nondeterministic     *)
(* choice among the results the caller distinguishes.                      *)
(***************************************************************************)
EXTENDS Integers, Sequences, FiniteSets, TLC

\* ---------------------------------------------------------------- bounds
MaxEntries == 2
\* largest value of a "filename-size" or "installed_size" key
MaxSize == 2

\* ------------------------------------------------------------- constants
\* errno values the code compares against or returns
EINVAL == 22
EAGAIN == 11
ENOENT == 2
ERANGE == 34
\* any other errno value a collaborator may report
EIO == 5
\* exit(3) statuses used by cleanup
EXIT_SUCCESS == 0
EXIT_FAILURE == 1

\* enum { TRANS_ONE, TRANS_ALL }
TRANS_ONE == "TRANS_ONE"
TRANS_ALL == "TRANS_ALL"

\* pkg_state_t values read and written through the state dictionary helpers
NOT_UNPACKED == "NOT_UNPACKED"
UNPACKED == "UNPACKED"
XBPS_PKG_STATE_UNPACKED == UNPACKED

\* a char pointer that was never assigned after calloc
NULL == "NULL"

\* ------------------------------------------------------------ input sets
Names == {"foo", "bar", "baz"}
RequestedPkgs == {"foo"}
EntryVersions == {"2.0"}
InstalledVersions == {"1.0", "2.0"}
\* the "essential" key of an entry dictionary: absent, or a boolean
EssentialAttrs == {"absent", "true", "false"}
States == {NOT_UNPACKED, UNPACKED}

EntryRec == [pkgname : Names, version : EntryVersions, essential : EssentialAttrs]

Injective(s) == \A i, j \in DOMAIN s : i # j => s[i].pkgname # s[j].pkgname

\* the "packages" array of the transaction dictionary, as sorted by the resolver
\* a uint64 key of an entry dictionary: <<>> when the key is absent, else <<value>>
SizeAttrs == {<<>>} \cup {<<v>> : v \in 0..MaxSize}
SizeRec == [filename_size : SizeAttrs, installed_size : SizeAttrs]

EntrySeqs == UNION {{s \in [1..n -> EntryRec] : Injective(s)} : n \in 1..MaxEntries}

VARIABLES
    op,          \* entry operation: "install" (xbps_install_pkg) or "autoupdate"
    pkg,         \* argument pkg of xbps_install_pkg
    force,       \* argument force
    update,      \* argument update of xbps_install_pkg
    entries,     \* packages array the resolver hands out through xbps_get_pkg_props
    state,       \* lifecycle state stored in each entry dictionary
    state0,      \* the lifecycle states when the operation started (history)
    trans,       \* struct transaction, or NULL before calloc
    pc,          \* position of the single thread of control
    rv,          \* local rv of the entry operation / of exec_transaction
    iterPos,     \* position of trans->iter in the packages array
    essential,   \* local essential of exec_transaction
    isdep,       \* local isdep of exec_transaction
    instver,     \* local instver of exec_transaction
    log,         \* collaborator calls made so far, in order
    outcome,     \* which path led to cleanup (history)
    failedEntry, \* index of the entry whose Apply step failed, 0 if none (history)
    exitStatus,  \* argument of exit(3), -1 while the process runs
    sizes,       \* the "filename-size" and "installed_size" keys of each entry
    tsize,       \* local tsize of show_transaction_sizes
    dlsize,      \* local dlsize of show_transaction_sizes
    instsize     \* local instsize of show_transaction_sizes

vars == <<op, pkg, force, update, entries, state, state0, trans, pc, rv, iterPos,
          essential, isdep, instver, log, outcome, failedEntry, exitStatus,
          sizes, tsize, dlsize, instsize>>

inputs == <<op, pkg, force, update, entries, state0>>
locals == <<iterPos, essential, isdep, instver>>
sizeLocals == <<tsize, dlsize, instsize>>

\* one collaborator call: which one, the entry index it is about (0: none),
\* the name and version passed, the boolean argument, and the result
Call(c, i, n, v, f, r) ==
    [call |-> c, idx |-> i, name |-> n, ver |-> v, flag |-> f, res |-> r]

Logged(c, i, n, v, f, r) == log' = Append(log, Call(c, i, n, v, f, r))

N == Len(entries)

\* struct transaction right after calloc(1, sizeof(struct transaction))
ZeroedTrans ==
    [originpkgname |-> NULL, curpkgname |-> NULL, type |-> TRANS_ONE,
     force |-> FALSE, update |-> FALSE]

Init ==
    /\ op \in {"install", "autoupdate"}
    /\ pkg \in RequestedPkgs
    /\ force \in BOOLEAN
    /\ update \in (IF op = "install" THEN BOOLEAN ELSE {FALSE})
    /\ entries \in EntrySeqs
    /\ state \in [1..Len(entries) -> States]
    /\ state0 = state
    /\ trans = NULL
    /\ pc = (IF op = "install" THEN "install_start" ELSE "auto_start")
    /\ rv = 0
    /\ iterPos = 1
    /\ essential = FALSE
    /\ isdep = FALSE
    /\ instver = NULL
    /\ log = <<>>
    /\ outcome = "running"
    /\ failedEntry = 0
    /\ exitStatus = -1
    /\ sizes = [i \in 1..Len(entries) |-> [filename_size |-> <<>>, installed_size |-> <<>>]]
    /\ tsize = 0
    /\ dlsize = 0
    /\ instsize = 0

\* cleanup(r) is called: control never comes back to the caller
GotoCleanup(r, what) ==
    /\ rv' = r
    /\ outcome' = what
    /\ pc' = "cleanup"

\* --------------------------------------------------------- xbps_install_pkg

\* variant: "already installed" is printed but the run goes on
InstallStart_NoEarlyExit ==
    /\ pc = "install_start"
    /\ \E found \in BOOLEAN :
        /\ Logged("find_installed", 0, pkg, NULL, FALSE, IF found THEN 0 ELSE ENOENT)
        /\ IF update
           THEN IF found
                THEN /\ pc' = "find_new"
                     /\ UNCHANGED <<rv, outcome>>
                ELSE GotoCleanup(rv, "not_installed")
           ELSE /\ pc' = "prepare"
                /\ UNCHANGED <<rv, outcome>>
    /\ UNCHANGED <<inputs, sizes, sizeLocals, state, trans, locals, failedEntry, exitStatus>>

\* lines 201-219: look the package up and take the early exits
InstallStart ==
    /\ pc = "install_start"
    /\ \E found \in BOOLEAN :
        /\ Logged("find_installed", 0, pkg, NULL, FALSE, IF found THEN 0 ELSE ENOENT)
        /\ IF update
           THEN IF found
                THEN /\ pc' = "find_new"
                     /\ UNCHANGED <<rv, outcome>>
                ELSE GotoCleanup(rv, "not_installed")
           ELSE IF found
                THEN GotoCleanup(rv, "already_installed")
                ELSE /\ pc' = "prepare"
                     /\ UNCHANGED <<rv, outcome>>
    /\ UNCHANGED <<inputs, sizes, sizeLocals, state, trans, locals, failedEntry, exitStatus>>

\* lines 204-209: xbps_find_new_pkg, 0 is reported as "up to date"
InstallFindNew ==
    /\ pc = "find_new"
    /\ \E r \in {0, EIO} :
        /\ Logged("find_new_pkg", 0, pkg, NULL, FALSE, r)
        /\ IF r = 0
           THEN GotoCleanup(r, "up_to_date")
           ELSE /\ rv' = r
                /\ pc' = "alloc"
                /\ UNCHANGED outcome
    /\ UNCHANGED <<inputs, sizes, sizeLocals, state, trans, locals, failedEntry, exitStatus>>

\* lines 220-227: xbps_prepare_pkg and the classification of its errors
InstallPrepare ==
    /\ pc = "prepare"
    /\ \E r \in {0, EAGAIN, ENOENT, EIO} :
        /\ Logged("prepare_pkg", 0, pkg, NULL, FALSE, r)
        /\ IF r # 0 /\ r = EAGAIN
           THEN GotoCleanup(r, "resolver_not_found")
           ELSE IF r # 0 /\ r # ENOENT
                THEN GotoCleanup(r, "resolver_error")
                ELSE /\ rv' = r
                     /\ pc' = "alloc"
                     /\ UNCHANGED outcome
    /\ UNCHANGED <<inputs, sizes, sizeLocals, state, trans, locals, failedEntry, exitStatus>>

\* lines 230-232: calloc of the transaction
InstallAlloc ==
    /\ pc = "alloc"
    /\ \E ok \in BOOLEAN :
        IF ok
        THEN /\ trans' = ZeroedTrans
             /\ pc' = "get_props"
             /\ UNCHANGED <<rv, outcome>>
        ELSE /\ GotoCleanup(rv, "alloc_failed")
             /\ UNCHANGED trans
    /\ UNCHANGED <<inputs, sizes, sizeLocals, state, locals, log, failedEntry, exitStatus>>

\* lines 234-238: xbps_get_pkg_props
InstallGetProps ==
    /\ pc = "get_props"
    /\ \E ok \in BOOLEAN :
        /\ Logged("get_pkg_props", 0, pkg, NULL, FALSE, IF ok THEN 0 ELSE ENOENT)
        /\ IF ok
           THEN /\ pc' = "missing_deps"
                /\ UNCHANGED <<rv, outcome>>
           ELSE GotoCleanup(rv, "no_props")
    /\ UNCHANGED <<inputs, sizes, sizeLocals, state, trans, locals, failedEntry, exitStatus>>

\* variant: the missing dependencies are shown but the run goes on
InstallMissingDeps_Continue ==
    /\ pc = "missing_deps"
    /\ \E missing \in BOOLEAN :
        /\ IF missing
           THEN Logged("show_missing_deps", 0, pkg, NULL, FALSE, 0)
           ELSE UNCHANGED log
        /\ trans' = [trans EXCEPT !.originpkgname = pkg]
        /\ pc' = "get_iter"
        /\ UNCHANGED <<rv, outcome>>
    /\ UNCHANGED <<inputs, sizes, sizeLocals, state, locals, failedEntry, exitStatus>>

\* lines 243-250: bail out on unresolved dependencies, else read the origin
InstallMissingDeps ==
    /\ pc = "missing_deps"
    /\ \E missing \in BOOLEAN :
        IF missing
        THEN /\ Logged("show_missing_deps", 0, pkg, NULL, FALSE, 0)
             /\ GotoCleanup(rv, "missing_deps")
             /\ UNCHANGED trans
        ELSE /\ trans' = [trans EXCEPT !.originpkgname = pkg]
             /\ pc' = "get_iter"
             /\ UNCHANGED <<rv, outcome, log>>
    /\ UNCHANGED <<inputs, sizes, sizeLocals, state, locals, failedEntry, exitStatus>>

\* lines 255-265: get the iterator, fill in the transaction, call exec_transaction
InstallGetIter ==
    /\ pc = "get_iter"
    /\ \E ok \in BOOLEAN :
        IF ok
        THEN /\ trans' = [trans EXCEPT !.force = force, !.update = update,
                                       !.type = TRANS_ONE]
             /\ iterPos' = 1
             /\ pc' = "exec"
             /\ UNCHANGED <<rv, outcome>>
        ELSE /\ GotoCleanup(rv, "iter_failed")
             /\ UNCHANGED <<trans, iterPos>>
    /\ UNCHANGED <<inputs, sizes, sizeLocals, state, essential, isdep, instver, log, failedEntry,
                   exitStatus>>

\* ----------------------------------------------------- xbps_autoupdate_pkgs

\* lines 424-429: xbps_prepare_regpkgdb_dict
AutoStart ==
    /\ pc = "auto_start"
    /\ \E ok \in BOOLEAN :
        /\ Logged("prepare_regpkgdb_dict", 0, NULL, NULL, FALSE, IF ok THEN 0 ELSE ENOENT)
        /\ IF ok
           THEN /\ pc' = "auto_repolist"
                /\ UNCHANGED <<rv, outcome>>
           ELSE GotoCleanup(rv, "nothing_installed")
    /\ UNCHANGED <<inputs, sizes, sizeLocals, state, trans, locals, failedEntry, exitStatus>>

\* lines 433-434: xbps_prepare_repolist_data
AutoRepolist ==
    /\ pc = "auto_repolist"
    /\ \E r \in {0, EIO} :
        /\ Logged("prepare_repolist_data", 0, NULL, NULL, FALSE, r)
        /\ IF r # 0
           THEN GotoCleanup(r, "repolist_error")
           ELSE /\ rv' = r
                /\ pc' = "auto_alloc"
                /\ UNCHANGED outcome
    /\ UNCHANGED <<inputs, sizes, sizeLocals, state, trans, locals, failedEntry, exitStatus>>

\* lines 439-447: calloc and the iterator over the registered packages
AutoAlloc ==
    /\ pc = "auto_alloc"
    /\ \E ok \in BOOLEAN, iterOk \in BOOLEAN :
        IF ~ok
        THEN /\ GotoCleanup(rv, "alloc_failed")
             /\ UNCHANGED trans
        ELSE IF ~iterOk
             THEN /\ GotoCleanup(EINVAL, "iter_failed")
                  /\ trans' = ZeroedTrans
             ELSE /\ trans' = ZeroedTrans
                  /\ pc' = "auto_find_new"
                  /\ UNCHANGED <<rv, outcome>>
    /\ UNCHANGED <<inputs, sizes, sizeLocals, state, locals, log, failedEntry, exitStatus>>

\* lines 453-461: xbps_find_new_pkg for every registered package; the first
\* non-zero result leaves the loop
AutoFindNew ==
    /\ pc = "auto_find_new"
    /\ \E r \in {0, EIO} :
        /\ Logged("find_new_pkg", 0, NULL, NULL, FALSE, r)
        /\ IF r # 0
           THEN GotoCleanup(r, "find_new_error")
           ELSE /\ rv' = r
                /\ pc' = "auto_get_props"
                /\ UNCHANGED outcome
    /\ UNCHANGED <<inputs, sizes, sizeLocals, state, trans, locals, failedEntry, exitStatus>>

\* lines 466-475: xbps_get_pkg_props; NULL with errno 0 means nothing to do
AutoGetProps ==
    /\ pc = "auto_get_props"
    /\ \E r \in {0, ENOENT, EIO} :
        /\ Logged("get_pkg_props", 0, NULL, NULL, FALSE, r)
        /\ IF r = 0
           THEN /\ pc' = "auto_sort"
                /\ UNCHANGED <<rv, outcome>>
           ELSE IF r = ENOENT
                THEN GotoCleanup(rv, "all_up_to_date")
                ELSE GotoCleanup(rv, "props_error")
    /\ UNCHANGED <<inputs, sizes, sizeLocals, state, trans, locals, failedEntry, exitStatus>>

\* lines 479-483: xbps_sort_pkg_deps
AutoSort ==
    /\ pc = "auto_sort"
    /\ \E r \in {0, EIO} :
        /\ Logged("sort_pkg_deps", 0, NULL, NULL, FALSE, r)
        /\ IF r # 0
           THEN GotoCleanup(r, "sort_error")
           ELSE /\ rv' = r
                /\ pc' = "auto_get_iter"
                /\ UNCHANGED outcome
    /\ UNCHANGED <<inputs, sizes, sizeLocals, state, trans, locals, failedEntry, exitStatus>>

\* lines 488-497: get the iterator, fill in the transaction, call exec_transaction
AutoGetIter ==
    /\ pc = "auto_get_iter"
    /\ \E ok \in BOOLEAN :
        IF ok
        THEN /\ trans' = [trans EXCEPT !.force = force, !.update = TRUE,
                                       !.type = TRANS_ALL]
             /\ iterPos' = 1
             /\ pc' = "exec"
             /\ UNCHANGED <<rv, outcome>>
        ELSE /\ GotoCleanup(rv, "iter_failed")
             /\ UNCHANGED <<trans, iterPos>>
    /\ UNCHANGED <<inputs, sizes, sizeLocals, state, essential, isdep, instver, log, failedEntry,
                   exitStatus>>

\* ---------------------------------------------------------- exec_transaction

\* variant: the confirmation is asked for before the summary is shown
ExecPhases_ConfirmFirst == <<"confirm", "summary", "hash", "apply", "configure">>

\* the statements of exec_transaction in source order: show_transaction_sizes
\* (294), xbps_noyes (302), check_pkg_hashes (312), the unpack loop (318) and
\* the configure loop (397)
ExecPhases == <<"summary", "confirm", "hash", "apply", "configure">>

PhaseAfter(p) ==
    IF \E k \in 1..(Len(ExecPhases) - 1) : ExecPhases[k] = p
    THEN ExecPhases[(CHOOSE k \in 1..(Len(ExecPhases) - 1) : ExecPhases[k] = p) + 1]
    ELSE "return"

\* exec_transaction returns r; the caller releases the iterator, the dictionary
\* and the transaction and calls cleanup(rv)  (lines 265-273, 497-505)
ExecReturn(r, what) ==
    /\ rv' = r
    /\ outcome' = what
    /\ pc' = "cleanup"

\* fall through to the next statement of exec_transaction, "return 0" after the last
GoPhase(p) ==
    IF p = "return"
    THEN ExecReturn(0, "success")
    ELSE /\ pc' = p
         /\ UNCHANGED <<rv, outcome>>

Entry == entries[iterPos]

\* lines 286-290
ExecEnter ==
    /\ pc = "exec"
    /\ essential' = FALSE
    /\ isdep' = FALSE
    /\ pc' = ExecPhases[1]
    /\ UNCHANGED <<inputs, sizes, sizeLocals, state, trans, rv, iterPos, instver, log, outcome,
                   failedEntry, exitStatus>>

\* prop_dictionary_get_uint64(obj, key, &tsize): tsize is written only when the
\* key is there (lines 137, 140)
GetUint64(attr, old) == IF attr = <<>> THEN old ELSE attr[1]

\* variant: tsize is not cleared after it was added
AfterAdd_NoReset(t) == t

\* lines 139, 142: tsize = 0
AfterAdd(t) == 0

\* lines 137-142: the body of the first loop of show_transaction_sizes for one
\* entry; t holds the locals tsize, dlsize and instsize
SizesTurn(sz, t) ==
    LET t1 == GetUint64(sz.filename_size, t.tsize)
        dl == t.dlsize + t1
        t2 == GetUint64(sz.installed_size, AfterAdd(t1))
        inst == t.instsize + t2
    IN [tsize |-> AfterAdd(t2), dlsize |-> dl, instsize |-> inst]

\* lines 136-143: the first loop of show_transaction_sizes from entry k on
RECURSIVE SizesPass(_, _)
SizesPass(k, t) ==
    IF k > Len(sizes) THEN t ELSE SizesPass(k + 1, SizesTurn(sizes[k], t))

\* show_transaction_sizes (lines 122-188) and its caller (lines 294-297)
Summary ==
    /\ pc = "summary"
    /\ LET t == SizesPass(1, [tsize |-> 0, dlsize |-> 0, instsize |-> 0])
       IN /\ tsize' = t.tsize
          /\ dlsize' = t.dlsize
          /\ instsize' = t.instsize
    /\ \E ok \in BOOLEAN :
        /\ Logged("summary", 0, NULL, NULL, FALSE, IF ok THEN 0 ELSE -1)
        /\ IF ok THEN GoPhase(PhaseAfter("summary"))
                 ELSE ExecReturn(-1, "size_format_error")
    /\ UNCHANGED <<inputs, sizes, state, trans, locals, failedEntry, exitStatus>>

\* variant: the answer of xbps_noyes is not looked at
Confirm_IgnoreAnswer ==
    /\ pc = "confirm"
    /\ IF trans.force = FALSE
       THEN \E yes \in BOOLEAN :
              /\ Logged("confirm", 0, NULL, NULL, FALSE, IF yes THEN 0 ELSE 1)
              /\ GoPhase(PhaseAfter("confirm"))
       ELSE /\ GoPhase(PhaseAfter("confirm"))
            /\ UNCHANGED log
    /\ UNCHANGED <<inputs, sizes, sizeLocals, state, trans, locals, failedEntry, exitStatus>>

\* lines 302-307: xbps_noyes unless -f was given
Confirm ==
    /\ pc = "confirm"
    /\ IF trans.force = FALSE
       THEN \E yes \in BOOLEAN :
              /\ Logged("confirm", 0, NULL, NULL, FALSE, IF yes THEN 0 ELSE 1)
              /\ IF yes THEN GoPhase(PhaseAfter("confirm"))
                        ELSE ExecReturn(0, "declined")
       ELSE /\ GoPhase(PhaseAfter("confirm"))
            /\ UNCHANGED log
    /\ UNCHANGED <<inputs, sizes, sizeLocals, state, trans, locals, failedEntry, exitStatus>>

\* variant: a mismatch (ERANGE) is reported but does not stop the gate
HashFails_IgnoreMismatch(r) == r # 0 /\ r # ERANGE

\* lines 107-115 of check_pkg_hashes: which results of xbps_check_pkg_file_hash
\* make the gate return -1
HashFails(r) == (r # 0 /\ r # ERANGE) \/ (r # 0 /\ r = ERANGE)

\* lines 101-102 of check_pkg_hashes
HashSkips(st) == st = XBPS_PKG_STATE_UNPACKED

\* one turn of the loop of check_pkg_hashes (lines 95-116)
CheckHashStep ==
    /\ pc = "hash"
    /\ iterPos <= N
    /\ \E stateOk \in BOOLEAN :
        IF ~stateOk
        THEN /\ ExecReturn(EINVAL, "state_read_error")
             /\ UNCHANGED <<iterPos, log>>
        ELSE IF HashSkips(state[iterPos])
             THEN /\ iterPos' = iterPos + 1
                  /\ UNCHANGED <<pc, rv, outcome, log>>
             ELSE \E r \in {0, ERANGE, EIO} :
                    /\ Logged("verify", iterPos, Entry.pkgname, Entry.version, FALSE, r)
                    /\ IF HashFails(r)
                       THEN /\ ExecReturn(-1, IF r = ERANGE THEN "hash_mismatch"
                                                            ELSE "hash_error")
                            /\ UNCHANGED iterPos
                       ELSE /\ iterPos' = iterPos + 1
                            /\ UNCHANGED <<pc, rv, outcome>>
    /\ UNCHANGED <<inputs, sizes, sizeLocals, state, trans, essential, isdep, instver, failedEntry,
                   exitStatus>>

\* lines 117-119 of check_pkg_hashes, line 312 of the caller
CheckHashesDone ==
    /\ pc = "hash"
    /\ iterPos > N
    /\ iterPos' = 1
    /\ GoPhase(PhaseAfter("hash"))
    /\ UNCHANGED <<inputs, sizes, sizeLocals, state, trans, essential, isdep, instver, log,
                   failedEntry, exitStatus>>

\* an error return out of the unpack loop while it works on the entry at iterPos
ApplyFail(r, what) ==
    /\ ExecReturn(r, what)
    /\ failedEntry' = iterPos

\* variant: the unpack loop does not skip entries that are already unpacked
ApplySkips_Never(st) == FALSE

\* lines 335-336
ApplySkips(st) == st = XBPS_PKG_STATE_UNPACKED

\* line 321: prop_dictionary_get_bool leaves the variable alone when the key is absent
ReadEssential(attr, old) == IF attr = "absent" THEN old ELSE (attr = "true")

\* variant: the strcmp test is inverted, the origin itself is flagged
ReadIsDep_Inverted(old) ==
    IF trans.type = TRANS_ONE /\ trans.originpkgname = Entry.pkgname THEN TRUE ELSE old

\* lines 324-326
ReadIsDep(old) ==
    IF trans.type = TRANS_ONE /\ trans.originpkgname # Entry.pkgname THEN TRUE ELSE old

\* lines 338-340: the outcomes of the test that guards the lookup of the
\* installed package.  strcmp on a pointer that was never assigned is undefined:
\* the process may be killed, or the comparison may come out either way.
ReplaceTest ==
    IF trans.type = TRANS_ALL THEN {"lookup"}
    ELSE IF ~trans.update THEN {"fresh"}
    ELSE IF trans.curpkgname = NULL THEN {"crash", "lookup", "fresh"}
    ELSE IF trans.curpkgname = Entry.pkgname THEN {"lookup"} ELSE {"fresh"}

\* lines 318-340: take the next entry, read its attributes and its state
ApplyBegin ==
    /\ pc = "apply"
    /\ iterPos <= N
    /\ essential' = ReadEssential(Entry.essential, essential)
    /\ isdep' = ReadIsDep(isdep)
    /\ \E stateOk \in BOOLEAN :
        IF ~stateOk
        THEN /\ ApplyFail(EINVAL, "apply_state_read_error")
             /\ UNCHANGED iterPos
        ELSE IF ApplySkips(state[iterPos])
             THEN /\ iterPos' = iterPos + 1
                  /\ UNCHANGED <<pc, rv, outcome, failedEntry>>
             ELSE \E t \in ReplaceTest :
                    /\ pc' = CASE t = "lookup" -> "apply_lookup"
                               [] t = "fresh" -> "apply_unpack"
                               [] t = "crash" -> "crashed"
                    /\ outcome' = IF t = "crash" THEN "crashed" ELSE outcome
                    /\ UNCHANGED <<iterPos, rv, failedEntry>>
    /\ UNCHANGED <<inputs, sizes, sizeLocals, state, trans, instver, log, exitStatus>>

\* variant: the old package is removed whether or not the entry is essential
NeedsRemoval_Always(ess) == TRUE

\* line 357
NeedsRemoval(ess) == ess = FALSE

\* variant: a package without installed dictionary is installed afresh
ApplyLookup_FreshOnMissing ==
    /\ pc = "apply_lookup"
    /\ \E found \in BOOLEAN, v \in InstalledVersions :
        /\ Logged("find_installed", iterPos, Entry.pkgname, IF found THEN v ELSE NULL,
                  FALSE, IF found THEN 0 ELSE ENOENT)
        /\ instver' = IF found THEN v ELSE instver
        /\ pc' = IF found /\ NeedsRemoval(essential) THEN "apply_remove" ELSE "apply_unpack"
        /\ UNCHANGED <<rv, outcome, failedEntry>>
    /\ UNCHANGED <<inputs, sizes, sizeLocals, state, trans, iterPos, essential, isdep, exitStatus>>

\* lines 341-357: xbps_find_pkg_installed_from_plist for the entry
ApplyLookup ==
    /\ pc = "apply_lookup"
    /\ \E found \in BOOLEAN, v \in InstalledVersions :
        /\ Logged("find_installed", iterPos, Entry.pkgname, IF found THEN v ELSE NULL,
                  FALSE, IF found THEN 0 ELSE ENOENT)
        /\ IF ~found
           THEN /\ ApplyFail(EINVAL, "apply_failed")
                /\ UNCHANGED instver
           ELSE /\ instver' = v
                /\ pc' = IF NeedsRemoval(essential) THEN "apply_remove" ELSE "apply_unpack"
                /\ UNCHANGED <<rv, outcome, failedEntry>>
    /\ UNCHANGED <<inputs, sizes, sizeLocals, state, trans, iterPos, essential, isdep, exitStatus>>

\* variant: the result of xbps_remove_pkg is not tested
ApplyRemove_Unchecked ==
    /\ pc = "apply_remove"
    /\ \E r \in {0, EIO} :
        /\ Logged("remove", iterPos, Entry.pkgname, Entry.version, TRUE, r)
        /\ pc' = "apply_unpack"
        /\ UNCHANGED <<rv, outcome, failedEntry>>
    /\ UNCHANGED <<inputs, sizes, sizeLocals, state, trans, locals, exitStatus>>

\* lines 358-363: xbps_remove_pkg(pkgname, version, true)
ApplyRemove ==
    /\ pc = "apply_remove"
    /\ \E r \in {0, EIO} :
        /\ Logged("remove", iterPos, Entry.pkgname, Entry.version, TRUE, r)
        /\ IF r # 0
           THEN ApplyFail(r, "apply_failed")
           ELSE /\ pc' = "apply_unpack"
                /\ UNCHANGED <<rv, outcome, failedEntry>>
    /\ UNCHANGED <<inputs, sizes, sizeLocals, state, trans, locals, exitStatus>>

\* variant: a failed unpack leaves the loop with break instead of return
ApplyUnpack_Break ==
    /\ pc = "apply_unpack"
    /\ \E r \in {0, EIO} :
        /\ Logged("unpack", iterPos, Entry.pkgname, Entry.version, essential, r)
        /\ IF r # 0
           THEN /\ rv' = r
                /\ outcome' = "apply_failed"
                /\ failedEntry' = iterPos
                /\ iterPos' = 1
                /\ pc' = "configure"
           ELSE /\ pc' = "apply_register"
                /\ UNCHANGED <<rv, outcome, failedEntry, iterPos>>
    /\ UNCHANGED <<inputs, sizes, sizeLocals, state, trans, essential, isdep, instver, exitStatus>>

\* lines 369-375: xbps_unpack_binary_pkg(obj, essential)
ApplyUnpack ==
    /\ pc = "apply_unpack"
    /\ \E r \in {0, EIO} :
        /\ Logged("unpack", iterPos, Entry.pkgname, Entry.version, essential, r)
        /\ IF r # 0
           THEN ApplyFail(r, "apply_failed")
           ELSE /\ pc' = "apply_register"
                /\ UNCHANGED <<rv, outcome, failedEntry>>
    /\ UNCHANGED <<inputs, sizes, sizeLocals, state, trans, locals, exitStatus>>

\* variant: the result of xbps_register_pkg is not tested
ApplyRegister_Unchecked ==
    /\ pc = "apply_register"
    /\ \E r \in {0, EIO} :
        /\ Logged("register", iterPos, Entry.pkgname, Entry.version, isdep, r)
        /\ isdep' = FALSE
        /\ pc' = "apply_set_state"
        /\ UNCHANGED <<rv, outcome, failedEntry>>
    /\ UNCHANGED <<inputs, sizes, sizeLocals, state, trans, iterPos, essential, instver, exitStatus>>

\* lines 379-384: xbps_register_pkg(obj, isdep), then isdep = false
ApplyRegister ==
    /\ pc = "apply_register"
    /\ \E r \in {0, EIO} :
        /\ Logged("register", iterPos, Entry.pkgname, Entry.version, isdep, r)
        /\ IF r # 0
           THEN /\ ApplyFail(r, "apply_failed")
                /\ UNCHANGED isdep
           ELSE /\ isdep' = FALSE
                /\ pc' = "apply_set_state"
                /\ UNCHANGED <<rv, outcome, failedEntry>>
    /\ UNCHANGED <<inputs, sizes, sizeLocals, state, trans, iterPos, essential, instver, exitStatus>>

\* lines 389-392: xbps_set_pkg_state_dictionary(obj, XBPS_PKG_STATE_UNPACKED)
ApplySetState ==
    /\ pc = "apply_set_state"
    /\ \E r \in {0, EIO} :
        /\ Logged("set_state", iterPos, Entry.pkgname, Entry.version, FALSE, r)
        /\ IF r # 0
           THEN /\ ApplyFail(r, "apply_failed")
                /\ UNCHANGED <<state, iterPos>>
           ELSE /\ state' = [state EXCEPT ![iterPos] = XBPS_PKG_STATE_UNPACKED]
                /\ iterPos' = iterPos + 1
                /\ pc' = "apply"
                /\ UNCHANGED <<rv, outcome, failedEntry>>
    /\ UNCHANGED <<inputs, sizes, sizeLocals, trans, essential, isdep, instver, exitStatus>>

\* variant: the iterator is not reset after the unpack loop
ApplyDone_NoReset ==
    /\ pc = "apply"
    /\ iterPos > N
    /\ GoPhase(PhaseAfter("apply"))
    /\ UNCHANGED <<inputs, sizes, sizeLocals, state, trans, locals, log, failedEntry, exitStatus>>

\* line 393: the unpack loop is over, the iterator is reset
ApplyDone ==
    /\ pc = "apply"
    /\ iterPos > N
    /\ iterPos' = 1
    /\ GoPhase(PhaseAfter("apply"))
    /\ UNCHANGED <<inputs, sizes, sizeLocals, state, trans, essential, isdep, instver, log,
                   failedEntry, exitStatus>>

\* lines 397-407: one turn of the configure loop
ConfigureStep ==
    /\ pc = "configure"
    /\ iterPos <= N
    /\ \E r \in {0, EIO} :
        /\ Logged("configure", iterPos, Entry.pkgname, Entry.version, FALSE, r)
        /\ IF r # 0
           THEN /\ ExecReturn(r, "configure_failed")
                /\ UNCHANGED iterPos
           ELSE /\ iterPos' = iterPos + 1
                /\ UNCHANGED <<pc, rv, outcome>>
    /\ UNCHANGED <<inputs, sizes, sizeLocals, state, trans, essential, isdep, instver, failedEntry,
                   exitStatus>>

\* lines 407-409: the configure loop is over
ConfigureDone ==
    /\ pc = "configure"
    /\ iterPos > N
    /\ GoPhase(PhaseAfter("configure"))
    /\ UNCHANGED <<inputs, sizes, sizeLocals, state, trans, locals, log, failedEntry, exitStatus>>

\* ------------------------------------------------------------------ cleanup

\* line 513
ExitStatus(r) == IF r = 0 THEN EXIT_SUCCESS ELSE EXIT_FAILURE

\* lines 508-514
Cleanup ==
    /\ pc = "cleanup"
    /\ log' = log \o <<Call("release_repolist", 0, NULL, NULL, FALSE, 0),
                       Call("release_regpkgdb", 0, NULL, NULL, FALSE, 0)>>
    /\ exitStatus' = ExitStatus(rv)
    /\ pc' = "exited"
    /\ UNCHANGED <<inputs, sizes, sizeLocals, state, trans, rv, locals, outcome, failedEntry>>

Next ==
    \/ InstallStart \/ InstallFindNew \/ InstallPrepare \/ InstallAlloc
    \/ InstallGetProps \/ InstallMissingDeps \/ InstallGetIter
    \/ AutoStart \/ AutoRepolist \/ AutoAlloc \/ AutoFindNew \/ AutoGetProps
    \/ AutoSort \/ AutoGetIter
    \/ ExecEnter \/ Summary \/ Confirm \/ CheckHashStep \/ CheckHashesDone
    \/ ApplyBegin \/ ApplyLookup \/ ApplyRemove \/ ApplyUnpack \/ ApplyRegister
    \/ ApplySetState \/ ApplyDone \/ ConfigureStep \/ ConfigureDone
    \/ Cleanup

Spec == Init /\ [][Next]_vars

\* ------------------------------------------- show_transaction_sizes, in steps

\* the entries handed to show_transaction_sizes, with every combination of
\* present and absent size keys
SizesInit ==
    /\ op = "install"
    /\ pkg \in RequestedPkgs
    /\ force = FALSE
    /\ update = FALSE
    /\ \E n \in 1..MaxEntries : entries = CHOOSE e \in EntrySeqs : Len(e) = n
    /\ state \in [1..Len(entries) -> States]
    /\ state0 = state
    /\ trans = ZeroedTrans
    /\ pc = "sizes_loop"
    /\ rv = 0
    /\ iterPos = 1
    /\ essential = FALSE
    /\ isdep = FALSE
    /\ instver = NULL
    /\ log = <<>>
    /\ outcome = "running"
    /\ failedEntry = 0
    /\ exitStatus = -1
    /\ sizes \in [1..Len(entries) -> SizeRec]
    /\ tsize = 0
    /\ dlsize = 0
    /\ instsize = 0

\* lines 136-143: one turn of the first loop
SizesSumStep ==
    /\ pc = "sizes_loop"
    /\ iterPos <= N
    /\ LET t == SizesTurn(sizes[iterPos],
                          [tsize |-> tsize, dlsize |-> dlsize, instsize |-> instsize])
       IN /\ tsize' = t.tsize
          /\ dlsize' = t.dlsize
          /\ instsize' = t.instsize
    /\ iterPos' = iterPos + 1
    /\ UNCHANGED <<inputs, sizes, state, trans, pc, rv, essential, isdep, instver,
                   log, outcome, failedEntry, exitStatus>>

\* lines 144-167: the iterator is reset and the package list is printed
SizesSumDone ==
    /\ pc = "sizes_loop"
    /\ iterPos > N
    /\ iterPos' = 1
    /\ pc' = "sizes_report"
    /\ UNCHANGED <<inputs, sizes, sizeLocals, state, trans, rv, essential, isdep,
                   instver, log, outcome, failedEntry, exitStatus>>

\* lines 172-187: both totals go through xbps_humanize_number
SizesReport ==
    /\ pc = "sizes_report"
    /\ \E ok \in BOOLEAN :
        /\ Logged("summary", 0, NULL, NULL, FALSE, IF ok THEN 0 ELSE -1)
        /\ rv' = IF ok THEN 0 ELSE -1
        /\ pc' = "sizes_returned"
    /\ UNCHANGED <<inputs, sizes, sizeLocals, state, trans, locals, outcome,
                   failedEntry, exitStatus>>

SizesNext == SizesSumStep \/ SizesSumDone \/ SizesReport

SizesSpec == SizesInit /\ [][SizesNext]_vars

\* ================================================================== claims

LogIdx == 1..Len(log)
ApplyCalls == {"remove", "unpack", "register", "set_state"}
MutatingCalls == ApplyCalls \cup {"configure"}
CallsOf(c) == {k \in LogIdx : log[k].call = c}
CallsOn(c, i) == {k \in LogIdx : log[k].call = c /\ log[k].idx = i}
IsConfigure(e) == e.call = "configure"
ConfigureLog == SelectSeq(log, IsConfigure)

\* position of a call among the phases, in the order the claim states them
\* (0: the call belongs to no phase of exec_transaction)
ClaimedRank(e) ==
    CASE e.call = "verify" -> 1
      [] e.call = "summary" -> 2
      [] e.call = "confirm" -> 3
      [] e.call \in ApplyCalls \/ (e.call = "find_installed" /\ e.idx > 0) -> 4
      [] e.call = "configure" -> 5
      [] OTHER -> 0

\* the same with the Integrity Gate after the confirmation
ActualRank(e) ==
    CASE e.call = "summary" -> 1
      [] e.call = "confirm" -> 2
      [] e.call = "verify" -> 3
      [] e.call \in ApplyCalls \/ (e.call = "find_installed" /\ e.idx > 0) -> 4
      [] e.call = "configure" -> 5
      [] OTHER -> 0

InOrder(Rank(_)) ==
    \A j, k \in LogIdx :
        (j < k /\ Rank(log[j]) > 0 /\ Rank(log[k]) > 0) => Rank(log[j]) <= Rank(log[k])

C2_FailFastBeforeMutation ==
    (\E k \in CallsOf("verify") : log[k].res # 0) =>
        /\ \A k \in LogIdx : log[k].call \notin MutatingCalls
        /\ \A k \in LogIdx : ~(log[k].call = "find_installed" /\ log[k].idx > 0)
        /\ state = state0

\* the second of two entries fails verification with a mismatch, after the
\* first passed, and the process has ended
C2_Witness ==
    /\ pc = "exited"
    /\ N = 2
    /\ \E j \in CallsOn("verify", 1) : log[j].res = 0
    /\ \E k \in CallsOn("verify", 2) : log[k].res = ERANGE

\* C3: an entry that is UNPACKED when the Apply phase reaches it is never passed
\* to verify, remove, unpack or register, and no entry is unpacked or registered
\* twice within one transaction.
C3_SkipUnpacked ==
    /\ \A i \in 1..N :
        state0[i] = UNPACKED =>
            \A c \in {"verify", "remove", "unpack", "register"} : CallsOn(c, i) = {}
    /\ \A i \in 1..N :
        /\ Cardinality(CallsOn("unpack", i)) <= 1
        /\ Cardinality(CallsOn("register", i)) <= 1
    /\ \A i \in 1..N :
        (pc = "apply" /\ iterPos = i /\ state[i] = UNPACKED) => state0[i] = UNPACKED

\* the Apply phase has gone past an UNPACKED entry and has unpacked another one
C3_Witness ==
    /\ pc \in {"configure", "cleanup", "exited"}
    /\ failedEntry = 0
    /\ \E i, j \in 1..N :
        /\ i < j
        /\ state0[i] = UNPACKED
        /\ \E k \in CallsOn("register", j) : log[k].res = 0

NoCallsAfter(K) ==
    \A i \in 1..N :
        i > K => \A c \in {"remove", "unpack", "register"} : CallsOn(c, i) = {}

\* C4 as stated: if entry K fails in the Apply phase (lookup, removal, unpack,
\* registration or state update), then at the end entries 1..K-1 are UNPACKED,
\* entries K..N are not UNPACKED, no remove/unpack/register call was made for
\* entries K+1..N and no configure call was made.
C4_LaterNotUnpacked ==
    (pc = "exited" /\ outcome = "apply_failed") =>
        /\ \A i \in 1..N : i < failedEntry => state[i] = UNPACKED
        /\ \A i \in 1..N : i >= failedEntry => state[i] # UNPACKED
        /\ NoCallsAfter(failedEntry)
        /\ CallsOf("configure") = {}

\* C4 amended: if entry K fails in the Apply phase, then at the end entries
\* 1..K-1 are UNPACKED, entry K is not UNPACKED when it failed at the lookup,
\* removal, unpack, registration or state update, entries K+1..N have the
\* lifecycle state they had when the transaction started, no
\* remove/unpack/register call was made for entries K+1..N and no configure
\* call was made.
C4_PartialApply ==
    (pc \in {"cleanup", "exited"} /\ failedEntry > 0) =>
        /\ \A i \in 1..N : i < failedEntry => state[i] = UNPACKED
        /\ outcome = "apply_failed" => state[failedEntry] = NOT_UNPACKED
        /\ \A i \in 1..N : i >= failedEntry => state[i] = state0[i]
        /\ NoCallsAfter(failedEntry)
        /\ CallsOf("configure") = {}

\* the second entry failed in the Apply phase after the first was applied
C4_Witness ==
    /\ pc = "exited"
    /\ outcome = "apply_failed"
    /\ failedEntry = 2
    /\ state0[1] = NOT_UNPACKED
    /\ state[1] = UNPACKED

BenignOutcomes == {"already_installed", "up_to_date", "all_up_to_date", "nothing_installed"}

\* C5: the process exits with status 0 exactly when the run succeeded or was a
\* benign no-op; every abort path exits with a non-zero status.
C5_ExitStatus ==
    pc = "exited" => (exitStatus = 0 <=> outcome \in BenignOutcomes \cup {"success"})

Terminated == pc \in {"exited", "crashed"}

\* C6: on every terminating path the resolver state and the registry state are
\* each released exactly once, after the last collaborator call and before the
\* outcome of the process is reported.
C6_ReleasedOnce ==
    /\ Cardinality(CallsOf("release_repolist")) <= 1
    /\ Cardinality(CallsOf("release_regpkgdb")) <= 1
    /\ Terminated =>
        /\ Len(log) >= 2
        /\ {log[Len(log) - 1].call, log[Len(log)].call}
               = {"release_repolist", "release_regpkgdb"}
    /\ ~Terminated => exitStatus = -1

\* C7: in SINGLE_ORIGIN mode the entry whose name equals origin_name is passed
\* to record_installation with is_dependency = false.
C7_OriginNotDependency ==
    op = "install" =>
        \A k \in CallsOf("register") : log[k].name = pkg => log[k].flag = FALSE

IsEssential(i) == entries[i].essential = "true"

\* C8: remove_installed is never called for an entry whose essential attribute
\* is true; once its installed version has been looked up the next call is
\* apply_binary_payload for it with essential = true, record_installation
\* follows a successful unpack, and a run that succeeds has configured it.
C8_EssentialNeverRemoved ==
    /\ \A k \in CallsOf("remove") : ~IsEssential(log[k].idx)
    /\ \A k \in CallsOf("unpack") : IsEssential(log[k].idx) => log[k].flag = TRUE
    /\ \A k \in CallsOf("find_installed") :
        (log[k].idx > 0 /\ log[k].res = 0 /\ IsEssential(log[k].idx)) =>
            IF k = Len(log)
            THEN pc = "apply_unpack" /\ iterPos = log[k].idx
            ELSE log[k + 1].call = "unpack" /\ log[k + 1].idx = log[k].idx
    /\ \A k \in CallsOf("register") :
        IsEssential(log[k].idx) =>
            /\ k > 1
            /\ log[k - 1] = [log[k] EXCEPT !.call = "unpack", !.flag = TRUE, !.res = 0]
    /\ outcome = "success" =>
        \A i \in 1..N : IsEssential(i) => \E k \in CallsOn("configure", i) : log[k].res = 0

\* an essential entry with an installed version was unpacked over it,
\* registered and configured
C8_Witness ==
    /\ pc = "exited"
    /\ outcome = "success"
    /\ \E i \in 1..N :
        /\ IsEssential(i)
        /\ \E k \in CallsOn("find_installed", i) : log[k].res = 0
        /\ CallsOn("unpack", i) # {}
        /\ CallsOn("register", i) # {}
        /\ CallsOn("configure", i) # {}

\* C9: the configure calls are made in the entry order of the Apply phase,
\* start only after the Apply pass completed successfully for all entries,
\* cover every entry including those skipped as already UNPACKED, and stop at
\* the first failing call.
C9_ConfigureOrder ==
    /\ \A j \in 1..Len(ConfigureLog) : ConfigureLog[j].idx = j
    /\ \A j \in 1..Len(ConfigureLog) : j < Len(ConfigureLog) => ConfigureLog[j].res = 0
    /\ CallsOf("configure") # {} =>
        /\ failedEntry = 0
        /\ \A i \in 1..N : state[i] = UNPACKED
        /\ \A j, k \in LogIdx :
            (log[j].call = "configure" /\ log[k].call \in ApplyCalls) => k < j
    /\ outcome = "success" =>
        /\ Len(ConfigureLog) = N
        /\ \A j \in 1..N : ConfigureLog[j].res = 0
    /\ outcome = "configure_failed" =>
        /\ Len(ConfigureLog) >= 1
        /\ ConfigureLog[Len(ConfigureLog)].res # 0

\* two entries, one of them skipped by the Apply phase, were both configured
C9_Witness ==
    /\ outcome = "success"
    /\ N = 2
    /\ state0[2] = UNPACKED
    /\ state0[1] = NOT_UNPACKED
    /\ Len(ConfigureLog) = 2

OkCallOn(c, i) == \E k \in CallsOn(c, i) : log[k].res = 0

\* C10: a lifecycle state only ever changes from NOT_UNPACKED to UNPACKED, the
\* change is made inside the Apply phase for the entry it is working on, and
\* only after apply_binary_payload and record_installation succeeded for it.
C10_StateOnlyForward ==
    [][\A i \in 1..N :
         state'[i] # state[i] =>
            /\ state[i] = NOT_UNPACKED
            /\ state'[i] = UNPACKED
            /\ pc = "apply_set_state"
            /\ iterPos = i
            /\ OkCallOn("unpack", i)
            /\ OkCallOn("register", i)]_vars

\* an entry has gone from NOT_UNPACKED to UNPACKED
C10_Witness ==
    \E i \in 1..N : state0[i] = NOT_UNPACKED /\ state[i] = UNPACKED

\* value a size key contributes to a total
SizeValue(attr) == IF attr = <<>> THEN 0 ELSE attr[1]

RECURSIVE SumFilenameSize(_)
SumFilenameSize(k) ==
    IF k = 0 THEN 0 ELSE SumFilenameSize(k - 1) + SizeValue(sizes[k].filename_size)

RECURSIVE SumInstalledSize(_)
SumInstalledSize(k) ==
    IF k = 0 THEN 0 ELSE SumInstalledSize(k - 1) + SizeValue(sizes[k].installed_size)

\* C13: once the first loop of the Summary Reporter is over, the download total
\* is the sum of the entries' artifact sizes and the installed total the sum of
\* their installed sizes, a missing key counting as 0 (while the loop runs the
\* totals are the sums over the entries already visited), and no entry has
\* changed its state.
C13_TotalsAreSums ==
    /\ pc = "sizes_loop" =>
        /\ dlsize = SumFilenameSize(iterPos - 1)
        /\ instsize = SumInstalledSize(iterPos - 1)
    /\ pc \in {"sizes_report", "sizes_returned"} =>
        /\ dlsize = SumFilenameSize(N)
        /\ instsize = SumInstalledSize(N)
    /\ state = state0

\* totals were reported for two entries, one of which has a download size but
\* no installed size
C13_Witness ==
    /\ pc = "sizes_returned"
    /\ N = 2
    /\ sizes[1].filename_size = <<MaxSize>>
    /\ sizes[1].installed_size = <<>>
    /\ sizes[2].installed_size = <<1>>
    /\ dlsize >= MaxSize

ReleaseCalls == {"release_repolist", "release_regpkgdb"}
ExecCalls == {"summary", "confirm", "verify", "configure"} \cup ApplyCalls
ResolverCalls == {"prepare_pkg", "find_new_pkg", "get_pkg_props", "sort_pkg_deps"}

\* C11: a targeted install with update = false of a package that is already
\* installed ends as a successful no-op: after the lookup that found it the only
\* calls are the two releases of cleanup (no resolver call, no transaction, no
\* verify, remove, unpack, register, state-update or configure call), no entry
\* changes state and the exit status is EXIT_SUCCESS.
C11_AlreadyInstalledNoOp ==
    (op = "install" /\ ~update /\ Len(log) >= 1 /\ log[1].res = 0) =>
        /\ pc \in {"cleanup", "exited"}
        /\ \A k \in LogIdx : k > 1 => log[k].call \in ReleaseCalls
        /\ state = state0
        /\ pc = "exited" => exitStatus = EXIT_SUCCESS

\* the process has exited after finding the requested package installed
C11_Witness ==
    /\ op = "install"
    /\ ~update
    /\ pc = "exited"
    /\ Len(log) = 3
    /\ log[1].call = "find_installed"
    /\ log[1].res = 0

\* C12: in a targeted install or update, once the resolved set reports
\* unresolved dependencies the run aborts before exec_transaction: no summary,
\* confirmation, integrity check, lookup, remove, unpack, register, state-update
\* or configure call is made and no entry changes state.
C12_MissingDepsAbort ==
    CallsOf("show_missing_deps") # {} =>
        /\ op = "install"
        /\ pc \in {"cleanup", "exited"}
        /\ \A k \in LogIdx : log[k].call \notin ExecCalls
        /\ \A k \in LogIdx : ~(log[k].call = "find_installed" /\ log[k].idx > 0)
        /\ state = state0

\* an update run has exited after reporting unresolved dependencies
C12_Witness ==
    /\ op = "install"
    /\ update
    /\ pc = "exited"
    /\ CallsOf("show_missing_deps") # {}
    /\ \E i \in 1..N : state[i] = NOT_UNPACKED

IsApplyCall(e) == e.call \in ApplyCalls
ApplyLog == SelectSeq(log, IsApplyCall)
ApplySteps == {<<"remove", "unpack">>, <<"unpack", "register">>, <<"register", "set_state">>}

\* C14: for every entry the Apply phase acts on, the calls come in the order
\* remove (only for a non-essential entry whose installed record was found),
\* unpack, register, set-state; each is made at most once per entry and only
\* after the preceding one succeeded, and all calls for an entry are made before
\* any call for a later entry.
C14_ApplyCallOrder ==
    /\ \A j \in 1..(Len(ApplyLog) - 1) :
        LET a == ApplyLog[j]
            b == ApplyLog[j + 1]
        IN /\ a.res = 0
           /\ \/ b.idx = a.idx /\ <<a.call, b.call>> \in ApplySteps
              \/ b.idx > a.idx /\ a.call = "set_state" /\ b.call \in {"remove", "unpack"}
    /\ Len(ApplyLog) >= 1 => ApplyLog[1].call \in {"remove", "unpack"}
    /\ \A i \in 1..N : \A c \in ApplyCalls : Cardinality(CallsOn(c, i)) <= 1
    /\ \A k \in CallsOf("remove") :
        /\ k > 1
        /\ log[k - 1].call = "find_installed"
        /\ log[k - 1].idx = log[k].idx
        /\ log[k - 1].res = 0
        /\ entries[log[k].idx].essential # "true"

\* two entries went through the Apply phase, the first with a removal
C14_Witness ==
    /\ N = 2
    /\ \E k \in CallsOn("remove", 1) : log[k].res = 0
    /\ \E k \in CallsOn("set_state", 1) : log[k].res = 0
    /\ \E k \in CallsOn("set_state", 2) : log[k].res = 0

InApply ==
    pc \in {"apply", "apply_lookup", "apply_remove", "apply_unpack", "apply_register",
            "apply_set_state"}

\* C15: in SINGLE_ORIGIN mode with allow_update = true, the name of the package
\* being updated has been assigned when the Apply phase compares against it, and
\* a NOT_UNPACKED entry of that name whose essential attribute is false (the
\* package is installed, or the update would have stopped at the start) has
\* remove_installed(name, version, keep_config = true) called before it is unpacked.
C15_ReplaceOnUpdate ==
    (op = "install" /\ update) =>
        /\ InApply => trans.curpkgname # NULL
        /\ \A i \in 1..N :
            (entries[i].pkgname = pkg /\ entries[i].essential = "false") =>
                \A k \in CallsOn("unpack", i) :
                    \E j \in CallsOn("remove", i) : j < k /\ log[j].flag = TRUE

\* C16: in SINGLE_ORIGIN mode every entry whose name differs from the origin and
\* that reaches registration is registered with is_dependency = true; in BULK
\* mode every registration has is_dependency = false.
C16_DependencyFlag ==
    \A k \in CallsOf("register") :
        IF op = "install"
        THEN log[k].name # pkg => log[k].flag = TRUE
        ELSE log[k].flag = FALSE

\* two entries other than the origin were both registered in SINGLE_ORIGIN mode
C16_Witness ==
    /\ op = "install"
    /\ N = 2
    /\ \A i \in 1..N :
        /\ entries[i].pkgname # pkg
        /\ \E k \in CallsOn("register", i) : log[k].res = 0 /\ log[k].flag = TRUE

\* C17: the essential flag passed to apply_binary_payload and used to decide
\* on remove_installed is the entry's own essential attribute, false when the
\* entry has none, whatever the attributes of earlier entries.
C17_OwnEssential ==
    /\ \A k \in CallsOf("unpack") : log[k].flag = IsEssential(log[k].idx)
    /\ \A k \in CallsOf("unpack") :
        (k > 1 /\ log[k - 1].call = "find_installed" /\ log[k - 1].idx = log[k].idx)
            => IsEssential(log[k].idx)

\* C18: a mutating call is made only if force is set or confirm() was asked
\* before and answered yes; with force set confirm() is never called; once
\* confirm() answered no the transaction ends without integrity check, lookup
\* or mutation.
C18_ConfirmationGate ==
    /\ force => CallsOf("confirm") = {}
    /\ \A k \in LogIdx :
        log[k].call \in MutatingCalls =>
            \/ force
            \/ \E j \in CallsOf("confirm") : j < k /\ log[j].res = 0
    /\ (\E j \in CallsOf("confirm") : log[j].res # 0) =>
        /\ pc \in {"cleanup", "exited"}
        /\ \A k \in LogIdx : log[k].call \notin MutatingCalls \cup {"verify"}
        /\ \A k \in LogIdx : ~(log[k].call = "find_installed" /\ log[k].idx > 0)
        /\ state = state0

\* the user declined a transaction that had entries to unpack, and the process
\* has exited
C18_Witness ==
    /\ ~force
    /\ pc = "exited"
    /\ \E j \in CallsOf("confirm") : log[j].res # 0
    /\ \A i \in 1..N : state[i] = NOT_UNPACKED

\* C19: in BULK mode an entry is unpacked only after its installed record was
\* found; when the lookup finds none the transaction aborts with EINVAL and a
\* failure status, with no remove, unpack or register call for that entry or
\* any later one, no configure call, and the entry still NOT_UNPACKED.
C19_MissingInstalledRecord ==
    op = "autoupdate" =>
        /\ \A k \in CallsOf("unpack") :
            \E j \in CallsOn("find_installed", log[k].idx) : j < k /\ log[j].res = 0
        /\ \A k \in CallsOf("find_installed") :
            (log[k].idx > 0 /\ log[k].res # 0) =>
                /\ pc \in {"cleanup", "exited"}
                /\ rv = EINVAL
                /\ failedEntry = log[k].idx
                /\ \A i \in 1..N :
                    i >= log[k].idx =>
                        \A c \in {"remove", "unpack", "register"} : CallsOn(c, i) = {}
                /\ state[log[k].idx] = NOT_UNPACKED
                /\ CallsOf("configure") = {}
                /\ pc = "exited" => exitStatus = EXIT_FAILURE

\* a bulk update applied its first entry and stopped at the second, which has
\* no installed record
C19_Witness ==
    /\ op = "autoupdate"
    /\ pc = "exited"
    /\ N = 2
    /\ \E k \in CallsOn("set_state", 1) : log[k].res = 0
    /\ \E k \in CallsOn("find_installed", 2) : log[k].res # 0

\* C20: the version passed to remove_installed is the version of the installed
\* record that the lookup just before it returned (stated for BULK mode, where
\* the removal is reached without the comparison against curpkgname).
C20_RemoveInstalledVersion ==
    op = "autoupdate" =>
        \A k \in CallsOf("remove") :
            /\ k > 1
            /\ log[k - 1].call = "find_installed"
            /\ log[k].ver = log[k - 1].ver

====
